---- MODULE Spec2Model ----
(***************************************************************************)
(* A model of src/microsoft_mcp/graph.py: the retry loop of request(), the *)
(* dependency chaining and retry loop of batch_request(), and the          *)
(* generator request_paginated().  One behaviour of the model is one call  *)
(* of one of these functions, with the caller's arguments chosen in Init   *)
(* and the server's answers chosen step by step.                           *)
(***************************************************************************)
EXTENDS Integers, Sequences, FiniteSets, TLC

VARIABLES
    op,            \* the function this behaviour calls
    pc,            \* position in that function: "loop", or "done" once it ended
    max_retries,   \* request(): the argument max_retries
    retry_count,   \* request(): the local retry_count
    outcome,       \* how the call ended ("pending" while it runs)
    trace,         \* request(): one entry per HTTP attempt: the response, and the sleep after it
    http_calls,    \* the number of HTTP calls issued so far
    requests,      \* batch_request(): the argument requests
    batch_payload, \* batch_request(): the "requests" of the local batch_payload
    returned,      \* batch_request(): the ids of the "responses" of the returned dictionary
    limit,         \* request_paginated(): the argument limit
    items_returned,\* request_paginated(): the local items_returned
    next_link,     \* request_paginated(): the local next_link
    page,          \* request_paginated(): result["value"] of the page being gone through
    page_pos,      \* request_paginated(): how many items of page the for loop has passed
    page_link,     \* request_paginated(): result.get("@odata.nextLink") of that page
    yielded,       \* request_paginated(): the items yielded so far, in order
    served,        \* request_paginated(): the value lists of the pages fetched so far, concatenated
    fetch_log,     \* request_paginated(): one entry per call of request()
    payload_from,  \* search_query(): payload["requests"][0]["from"]
    payload_size,  \* search_query(): payload["requests"][0]["size"]
    search_value,  \* search_query(): result["value"] of the response being gone through
    search_next,   \* search_query(): "@odata.nextLink" in result, for that response
    search_log,    \* search_query(): one entry per call of request(), with its answer
    file_size,     \* uploads: len(data)
    session,       \* uploads: what became of the creation of the upload session
    direct_puts,   \* upload_large_file(): the calls of request("PUT", ".../content")
    chunk_start,   \* _do_chunked_upload(): the loop variable i
    put_log,       \* _do_chunked_upload(): the PUTs of the chunk at chunk_start, in order
    chunks_done,   \* _do_chunked_upload(): the chunks before it, with the number of their PUTs
    loops          \* the retry loops of request() and batch_request(), given the same answers

vars == <<op, pc, max_retries, retry_count, outcome, trace, http_calls,
          requests, batch_payload, returned,
          limit, items_returned, next_link, page, page_pos, page_link,
          yielded, served, fetch_log,
          payload_from, payload_size, search_value, search_next, search_log,
          file_size, session, direct_puts, chunk_start, put_log, chunks_done, loops>>

pair_vars == <<loops>>

upload_vars == <<file_size, session, direct_puts, chunk_start, put_log, chunks_done>>

search_vars == <<payload_from, payload_size, search_value, search_next, search_log>>

paginated_vars == <<limit, items_returned, next_link, page, page_pos, page_link,
                    yielded, served, fetch_log>>

request_vars == <<trace>>
batch_vars == <<requests, batch_payload, returned>>

----------------------------------------------------------------------------
(* Bounds of the model *)

\* the largest max_retries a caller passes (the smallest is -1)
MaxRetriesBound == 3

\* how far past the limit of 20 requests the envelopes of a caller go
MaxOversize == 1

\* the last position at which a caller's request may carry its own dependsOn
MaxOwnDependsOn == 6

\* the most pages a server splits a result in
MaxPages == 3

\* the most items a page holds
MaxPageLen == 5

\* the largest limit a caller passes
MaxLimit == 4

\* the largest of the small limits a caller passes to search_query()
MaxSearchLimit == 2

\* the most hits a hit container holds
MaxHits == 2

\* the most requests a search takes before the backend reports no more results
MaxSearchRequests == 3

----------------------------------------------------------------------------
(* Values *)

Min(a, b) == IF a <= b THEN a ELSE b

\* a header value is a sequence of one-character strings
DigitChars == <<"0", "1", "2", "3", "4", "5", "6", "7", "8", "9">>

IsDigit(c) == \E d \in 1..10 : DigitChars[d] = c

DigitVal(c) == (CHOOSE d \in 1..10 : DigitChars[d] = c) - 1

RECURSIVE DecValue(_)
DecValue(s) ==
    IF s = <<>> THEN 0
    ELSE 10 * DecValue(SubSeq(s, 1, Len(s) - 1)) + DigitVal(s[Len(s)])

AllDigits(s) == s # <<>> /\ \A k \in 1..Len(s) : IsDigit(s[k])

\* Python's int(text): a decimal integer with an optional sign, ValueError otherwise
int_ok(s) ==
    \/ AllDigits(s)
    \/ s # <<>> /\ s[1] \in {"-", "+"} /\ AllDigits(Tail(s))

int(s) ==
    IF s[1] = "-" THEN 0 - DecValue(Tail(s))
    ELSE IF s[1] = "+" THEN DecValue(Tail(s))
    ELSE DecValue(s)

\* the Retry-After headers a server sends: none, or a text
NoHeader == [present |-> FALSE, text |-> <<>>]
Header(s) == [present |-> TRUE, text |-> s]

RetryAfterHeaders ==
    { NoHeader,
      Header(<<"7">>), Header(<<"6", "0">>), Header(<<"6", "1">>),
      Header(<<"1", "2", "0">>), Header(<<"-", "1">>), Header(<<"s", "o", "o", "n">>) }

StatusCodes == {200, 204, 304, 404, 429, 500, 503}

\* a response: its status, its Retry-After header and whether it has a body.
\* Only a 429 carries Retry-After here, and only a 2xx may lack a body.
Responses ==
    { r \in [status_code : StatusCodes, retry_after : RetryAfterHeaders, content : BOOLEAN] :
        /\ r.status_code # 429 => r.retry_after = NoHeader
        /\ (r.status_code < 200 \/ r.status_code > 299) => r.content }

----------------------------------------------------------------------------
(* request(): the retry loop, lines 44-83 *)

\* response.headers.get("Retry-After", "5")
headers_get_retry_after(response) ==
    IF response.retry_after.present THEN response.retry_after.text ELSE <<"5">>

retry_after_sleep_uncapped(retry_after) == retry_after

\* min(retry_after, 60)
retry_after_sleep(retry_after) == Min(retry_after, 60)

wait_time_linear(rc) == 2 * rc

\* wait_time = (2**retry_count) * 1
wait_time(rc) == (2 ^ rc) * 1

retries_left_inclusive(rc, mr) == rc <= mr

\* the guard retry_count < max_retries of lines 58, 63 and 76
retries_left(rc, mr) == rc < mr

\* httpx: raise_for_status() raises HTTPStatusError for every status that is not 2xx
raise_for_status_raises(status) == ~(200 <= status /\ status <= 299)

Retry(secs)  == [kind |-> "retry", slept |-> TRUE, secs |-> secs]
Raise(exc)   == [kind |-> exc, slept |-> FALSE, secs |-> 0]
Return(what) == [kind |-> what, slept |-> FALSE, secs |-> 0]

except_HTTPStatusError_any_status(response, rc, mr) ==
    IF retries_left(rc, mr)
    THEN Retry(wait_time(rc))
    ELSE Raise("HTTPStatusError")

\* lines 75-81: the handler of the HTTPStatusError raised by line 69
except_HTTPStatusError(response, rc, mr) ==
    IF retries_left(rc, mr) /\ response.status_code >= 500
    THEN Retry(wait_time(rc))
    ELSE Raise("HTTPStatusError")

\* lines 63-73
after_429_check(response, rc, mr) ==
    IF response.status_code >= 500 /\ retries_left(rc, mr)
    THEN Retry(wait_time(rc))
    ELSE IF raise_for_status_raises(response.status_code)
    THEN except_HTTPStatusError(response, rc, mr)
    ELSE IF response.content THEN Return("json") ELSE Return("None")

\* lines 56-73: what one iteration of the loop does with the response.
\* int() and time.sleep() raise ValueError, which no handler catches.
request_iteration(response, rc, mr) ==
    IF response.status_code = 429
    THEN IF ~int_ok(headers_get_retry_after(response))
         THEN Raise("ValueError")
         ELSE LET retry_after == int(headers_get_retry_after(response)) IN
              IF retries_left(rc, mr)
              THEN IF retry_after_sleep(retry_after) < 0
                   THEN Raise("ValueError")
                   ELSE Retry(retry_after_sleep(retry_after))
              ELSE after_429_check(response, rc, mr)
    ELSE after_429_check(response, rc, mr)

\* a retry loop: its position, its retry_count, the sleeps it made, the HTTP
\* attempts it made, how it ended and the status of the last answer it got
IdleLoop ==
    [pc |-> "idle", retry_count |-> 0, sleeps |-> <<>>, attempts |-> 0,
     outcome |-> "pending", last_status |-> 0]

NoLoops == [request |-> IdleLoop, batch_request |-> IdleLoop]

InitRequest ==
    /\ op = "request"
    /\ pc = "loop"
    /\ max_retries \in -1..MaxRetriesBound
    /\ retry_count = 0
    /\ outcome = "pending"
    /\ trace = <<>>
    /\ http_calls = 0
    /\ requests = <<>> /\ batch_payload = <<>> /\ returned = <<>>
    /\ limit = [given |-> FALSE, value |-> 0] /\ items_returned = 0
    /\ next_link = [present |-> FALSE, base |-> FALSE, rest |-> <<>>]
    /\ page = <<>> /\ page_pos = 0
    /\ page_link = [present |-> FALSE, base |-> FALSE, rest |-> <<>>]
    /\ yielded = <<>> /\ served = <<>> /\ fetch_log = <<>>
    /\ payload_from = 0 /\ payload_size = 0 /\ search_value = <<>>
    /\ search_next = FALSE /\ search_log = <<>>
    /\ file_size = 0 /\ session = "none" /\ direct_puts = 0
    /\ chunk_start = 0 /\ put_log = <<>> /\ chunks_done = <<>>
    /\ loops = NoLoops

\* lines 45-81: one pass through the body of the while loop
RequestAttempt ==
    /\ op = "request" /\ pc = "loop"
    /\ retry_count <= max_retries
    /\ \E response \in Responses :
         LET it == request_iteration(response, retry_count, max_retries) IN
         /\ trace' = Append(trace, [response |-> response, retry_count |-> retry_count,
                                    slept |-> it.slept, secs |-> it.secs])
         /\ IF it.kind = "retry"
            THEN /\ retry_count' = retry_count + 1
                 /\ UNCHANGED <<pc, outcome>>
            ELSE /\ pc' = "done"
                 /\ outcome' = it.kind
                 /\ UNCHANGED retry_count
    /\ http_calls' = http_calls + 1
    /\ UNCHANGED <<op, max_retries>>
    /\ UNCHANGED batch_vars /\ UNCHANGED paginated_vars /\ UNCHANGED upload_vars /\ UNCHANGED pair_vars
    /\ UNCHANGED search_vars

\* line 83: the loop condition fails and the function returns None
RequestLoopExit ==
    /\ op = "request" /\ pc = "loop"
    /\ ~(retry_count <= max_retries)
    /\ pc' = "done"
    /\ outcome' = "None"
    /\ UNCHANGED <<op, max_retries, retry_count, trace, http_calls>>
    /\ UNCHANGED batch_vars /\ UNCHANGED paginated_vars /\ UNCHANGED upload_vars /\ UNCHANGED pair_vars
    /\ UNCHANGED search_vars

----------------------------------------------------------------------------
(* Properties of request() *)

Retryable(status) == status = 429 \/ status >= 500

Attempts == DOMAIN trace

SleepCount == Cardinality({k \in Attempts : trace[k].slept})

Raised == outcome \in {"HTTPStatusError", "ValueError"}

\* C1: with max_retries >= 0, a call of request() sleeps at most max_retries
\* times and makes at most max_retries + 1 HTTP attempts, and a call whose
\* every attempt was answered with 429 or 5xx ends by raising an error, never
\* by returning (None or a body).
C1_BoundedRetriesThenRaise ==
    (op = "request" /\ max_retries >= 0) =>
        /\ SleepCount <= max_retries
        /\ Len(trace) <= max_retries + 1
        /\ http_calls = Len(trace)
        /\ (pc = "done" /\ \A k \in Attempts : Retryable(trace[k].response.status_code))
              => Raised

C1_Witness ==
    /\ op = "request" /\ pc = "done" /\ max_retries = 3
    /\ Len(trace) = 4 /\ SleepCount = 3
    /\ \A k \in Attempts : Retryable(trace[k].response.status_code)
    /\ outcome = "HTTPStatusError"

\* C2: a response whose status is not 2xx, not 429 and not 5xx ends the call
\* on that attempt with an error: no sleep follows it and no further attempt.
C2_OtherStatusFailsAtOnce ==
    op = "request" =>
        \A k \in Attempts :
            LET status == trace[k].response.status_code IN
            (~(200 <= status /\ status <= 299) /\ ~Retryable(status)) =>
                /\ k = Len(trace)
                /\ ~trace[k].slept
                /\ pc = "done"
                /\ outcome = "HTTPStatusError"

C2_Witness ==
    /\ op = "request" /\ max_retries = 3 /\ Len(trace) = 2
    /\ trace[1].slept
    /\ trace[2].response.status_code = 404
    /\ pc = "done" /\ outcome = "HTTPStatusError"

\* the Retry-After of a response in seconds, 5 when the header is absent
RetryAfterSeconds(response) ==
    IF response.retry_after.present THEN int(response.retry_after.text) ELSE 5

RetryAfterIsSeconds(response) ==
    ~response.retry_after.present
    \/ (int_ok(response.retry_after.text) /\ int(response.retry_after.text) >= 0)

\* C3: a 429 with attempts remaining (and a Retry-After that is absent or a
\* number of seconds) is followed by a sleep, and every sleep after a 429 lasts
\* min(Retry-After, 60) seconds, 5 standing for an absent header; Retry-After:
\* 120 gives 60 seconds.
C3_RateLimitSleepIsCapped ==
    op = "request" =>
        \A k \in Attempts :
            LET response == trace[k].response IN
            response.status_code = 429 =>
                /\ (trace[k].retry_count < max_retries /\ RetryAfterIsSeconds(response))
                      => trace[k].slept
                /\ trace[k].slept =>
                      /\ trace[k].retry_count < max_retries
                      /\ trace[k].secs = Min(RetryAfterSeconds(response), 60)
                      /\ trace[k].secs <= 60
                      /\ response.retry_after = Header(<<"1", "2", "0">>) => trace[k].secs = 60
                      /\ response.retry_after = NoHeader => trace[k].secs = 5

C3_Witness ==
    /\ op = "request" /\ Len(trace) = 2
    /\ trace[1].response.status_code = 429
    /\ trace[1].response.retry_after = Header(<<"1", "2", "0">>)
    /\ trace[1].slept /\ trace[1].secs = 60
    /\ trace[2].response.status_code = 429
    /\ trace[2].response.retry_after = NoHeader
    /\ trace[2].slept /\ trace[2].secs = 5

\* C4: a 5xx with attempts remaining is followed by a sleep of 2^attempt
\* seconds, attempt being the number of retries made before it in this call (0
\* at the first); a 5xx with no attempt remaining ends the call with an error
\* and no sleep; a call answered with 5xx only sleeps 1, 2, 4, ... seconds.
C4_ServerErrorBackoff ==
    op = "request" =>
        \A k \in Attempts :
            trace[k].response.status_code >= 500 =>
                /\ trace[k].retry_count = k - 1
                /\ trace[k].retry_count = Cardinality({j \in 1..(k - 1) : trace[j].slept})
                /\ IF trace[k].retry_count < max_retries
                   THEN trace[k].slept /\ trace[k].secs = 2 ^ (k - 1)
                   ELSE /\ ~trace[k].slept
                        /\ k = Len(trace) /\ pc = "done" /\ outcome = "HTTPStatusError"

C4_Witness ==
    /\ op = "request" /\ pc = "done" /\ max_retries = 3 /\ Len(trace) = 4
    /\ \A k \in Attempts : trace[k].response.status_code >= 500
    /\ trace[1].secs = 1 /\ trace[2].secs = 2 /\ trace[3].secs = 4
    /\ ~trace[4].slept /\ outcome = "HTTPStatusError"

----------------------------------------------------------------------------
(* batch_request(): validation and dependency chaining, lines 111-148 *)

\* line 114: the most requests one batch may hold
BATCH_LIMIT == 20

\* lines 123, 131 and 141: the size of a chunk
CHUNK == 4

\* the ids a caller gives to the k-th request (k from 1): in order, or scattered
AscendingId(k) == k
ScatteredId(k) == (k * 7) % 23

\* a request as the caller writes it
PlainRequest(id) == [id |-> id, url |-> "/me/messages"]
DependentRequest(id, deps) == [id |-> id, url |-> "/me/messages", dependsOn |-> deps]

\* The envelopes a caller passes: n requests with distinct ids, of which at most
\* one (the p-th, p > 1) already carries a dependsOn of its own, naming the first id.
Envelope(n, scattered, p) ==
    [k \in 1..n |->
        LET id == IF scattered THEN ScatteredId(k) ELSE AscendingId(k) IN
        IF k # p THEN PlainRequest(id)
        ELSE DependentRequest(id, <<IF scattered THEN ScatteredId(1) ELSE AscendingId(1)>>)]

Envelopes ==
    { Envelope(n, scattered, p) :
        n \in 0..(BATCH_LIMIT + MaxOversize), scattered \in BOOLEAN,
        p \in {0} \cup 2..MaxOwnDependsOn }

\* line 111: not requests
no_requests(reqs) == Len(reqs) = 0

too_many_requests_off_by_one(reqs) == Len(reqs) > BATCH_LIMIT + 1

\* line 114: len(requests) > 20
too_many_requests(reqs) == Len(reqs) > BATCH_LIMIT

\* req = req.copy(); req["dependsOn"] = [prev]
with_dependsOn(req, prev) ==
    [f \in DOMAIN req \cup {"dependsOn"} |-> IF f = "dependsOn" THEN <<prev>> ELSE req[f]]

\* lines 131 and 141: the request at index i starts a chunk
starts_chunk(i) == i % CHUNK = 0

\* lines 136 and 143: requests[i - 1]["id"], with Python's 0-based index i
prev_req_id(reqs, i) == reqs[(i - 1) + 1].id

chain_request_within_chunks_only(reqs, i) ==
    IF starts_chunk(i) THEN reqs[i + 1] ELSE with_dependsOn(reqs[i + 1], prev_req_id(reqs, i))

\* lines 128-146: the body of the for loop, for the request at 0-based index i
chain_request(reqs, i) ==
    LET req == reqs[i + 1]
        in_chunk == IF starts_chunk(i) THEN req ELSE with_dependsOn(req, prev_req_id(reqs, i))
    IN  IF i >= CHUNK /\ starts_chunk(i)
        THEN with_dependsOn(in_chunk, prev_req_id(reqs, i))
        ELSE in_chunk

chunked_requests_below_chunk(reqs) ==
    IF Len(reqs) < CHUNK THEN reqs
    ELSE [k \in 1..Len(reqs) |-> chain_request(reqs, k - 1)]

\* lines 120-146: chunked_requests
chunked_requests(reqs) ==
    IF Len(reqs) <= CHUNK THEN reqs
    ELSE [k \in 1..Len(reqs) |-> chain_request(reqs, k - 1)]

\* the bodies a server answers a batch with, as the ids of their "responses":
\* one per request, the same reversed, one missing, one twice, none at all
Ids(payload) == [k \in 1..Len(payload) |-> payload[k].id]
Reverse(s) == [k \in 1..Len(s) |-> s[Len(s) + 1 - k]]
BatchBodies(payload) ==
    LET ids == Ids(payload) IN
    { ids, Reverse(ids), SubSeq(ids, 1, Len(ids) - 1), <<ids[1]>> \o ids, <<>> }

InitBatch ==
    /\ op = "batch_request"
    /\ pc = "start"
    /\ max_retries \in -1..MaxRetriesBound
    /\ requests \in Envelopes
    /\ retry_count = 0
    /\ outcome = "pending"
    /\ http_calls = 0
    /\ batch_payload = <<>> /\ returned = <<>>
    /\ trace = <<>>
    /\ limit = [given |-> FALSE, value |-> 0] /\ items_returned = 0
    /\ next_link = [present |-> FALSE, base |-> FALSE, rest |-> <<>>]
    /\ page = <<>> /\ page_pos = 0
    /\ page_link = [present |-> FALSE, base |-> FALSE, rest |-> <<>>]
    /\ yielded = <<>> /\ served = <<>> /\ fetch_log = <<>>
    /\ payload_from = 0 /\ payload_size = 0 /\ search_value = <<>>
    /\ search_next = FALSE /\ search_log = <<>>
    /\ file_size = 0 /\ session = "none" /\ direct_puts = 0
    /\ chunk_start = 0 /\ put_log = <<>> /\ chunks_done = <<>>
    /\ loops = NoLoops

\* lines 111-115: an empty or oversized argument ends the call
BatchReject ==
    /\ op = "batch_request" /\ pc = "start"
    /\ no_requests(requests) \/ too_many_requests(requests)
    /\ pc' = "done"
    /\ outcome' = IF no_requests(requests) THEN "returned" ELSE "ValueError"
    /\ UNCHANGED <<op, max_retries, retry_count, http_calls, requests, batch_payload,
                   returned>>
    /\ UNCHANGED request_vars /\ UNCHANGED paginated_vars /\ UNCHANGED upload_vars /\ UNCHANGED pair_vars
    /\ UNCHANGED search_vars

\* lines 111-156: the argument passes and the payload is built
BatchPrepare ==
    /\ op = "batch_request" /\ pc = "start"
    /\ ~no_requests(requests) /\ ~too_many_requests(requests)
    /\ batch_payload' = chunked_requests(requests)
    /\ pc' = "loop"
    /\ UNCHANGED <<op, max_retries, retry_count, outcome, http_calls, requests, returned>>
    /\ UNCHANGED request_vars /\ UNCHANGED paginated_vars /\ UNCHANGED upload_vars /\ UNCHANGED pair_vars
    /\ UNCHANGED search_vars

batch_iteration_body_optional(response, rc, mr) ==
    LET it == request_iteration(response, rc, mr) IN
    IF it.kind \in {"json", "None"} THEN Return("returned") ELSE it

\* lines 165-188: what one iteration of the loop does with the response.
\* response.json() raises JSONDecodeError on a response without a body.
batch_iteration(response, rc, mr) ==
    IF response.status_code = 429 /\ ~int_ok(headers_get_retry_after(response))
    THEN Raise("ValueError")
    ELSE IF response.status_code = 429 /\ rc < mr
    THEN IF Min(int(headers_get_retry_after(response)), 60) < 0
         THEN Raise("ValueError")
         ELSE Retry(Min(int(headers_get_retry_after(response)), 60))
    ELSE IF response.status_code >= 500 /\ rc < mr
    THEN Retry((2 ^ rc) * 1)
    ELSE IF raise_for_status_raises(response.status_code)
    THEN IF rc < mr /\ response.status_code >= 500
         THEN Retry((2 ^ rc) * 1)
         ELSE Raise("HTTPStatusError")
    ELSE IF response.content THEN Return("returned") ELSE Raise("JSONDecodeError")

\* line 180: return response.json()
response_json(body) == body

\* lines 157-188: one pass through the body of the while loop
BatchAttempt ==
    /\ op = "batch_request" /\ pc = "loop"
    /\ retry_count <= max_retries
    /\ \E response \in Responses, body \in BatchBodies(batch_payload) :
         LET it == batch_iteration(response, retry_count, max_retries) IN
         IF it.kind = "retry"
         THEN /\ retry_count' = retry_count + 1
              /\ UNCHANGED <<pc, outcome, returned>>
         ELSE /\ pc' = "done"
              /\ outcome' = it.kind
              /\ returned' = IF it.kind = "returned" THEN response_json(body) ELSE returned
              /\ UNCHANGED retry_count
    /\ http_calls' = http_calls + 1
    /\ UNCHANGED <<op, max_retries, requests, batch_payload>>
    /\ UNCHANGED request_vars /\ UNCHANGED paginated_vars /\ UNCHANGED upload_vars /\ UNCHANGED pair_vars
    /\ UNCHANGED search_vars

\* line 190: the loop condition fails
BatchLoopExit ==
    /\ op = "batch_request" /\ pc = "loop"
    /\ ~(retry_count <= max_retries)
    /\ pc' = "done"
    /\ outcome' = "ValueError"
    /\ UNCHANGED <<op, max_retries, retry_count, http_calls, requests, batch_payload,
                   returned>>
    /\ UNCHANGED request_vars /\ UNCHANGED paginated_vars /\ UNCHANGED upload_vars /\ UNCHANGED pair_vars
    /\ UNCHANGED search_vars

----------------------------------------------------------------------------
(* Properties of batch_request() *)

\* the payload has been built and is what the batch endpoint is sent
Submitted == op = "batch_request" /\ pc \in {"loop", "done"} /\ batch_payload # <<>>

CarriesDependsOn(req) == "dependsOn" \in DOMAIN req

C7_InvalidSizeNoNetwork ==
    (op = "batch_request" /\ (Len(requests) = 0 \/ Len(requests) > BATCH_LIMIT)) =>
        /\ http_calls = 0
        /\ pc \in {"start", "done"}
        /\ batch_payload = <<>>
        /\ pc = "done" =>
              IF Len(requests) = 0
              THEN outcome = "returned" /\ returned = <<>>
              ELSE outcome = "ValueError"

C7_Witness ==
    /\ op = "batch_request" /\ Len(requests) = BATCH_LIMIT + 1
    /\ pc = "done" /\ outcome = "ValueError" /\ http_calls = 0

\* C8, as claimed: whenever batch_request() returns, the result holds exactly
\* one entry for every submitted request id.
C8_Claimed_OneEntryPerId ==
    (op = "batch_request" /\ pc = "done" /\ outcome = "returned") =>
        \A k \in DOMAIN batch_payload :
            Cardinality({j \in DOMAIN returned : returned[j] = batch_payload[k].id}) = 1

----------------------------------------------------------------------------
(* request_paginated(): the generator, lines 200-221 *)

\* A link is the text of "@odata.nextLink": BASE_URL (or nothing) followed by rest.
\* The key may be missing from the page, which result.get() turns into None.
NoLink    == [present |-> FALSE, base |-> FALSE, rest |-> <<>>]
EmptyLink == [present |-> TRUE, base |-> FALSE, rest |-> <<>>]
Cursor(n) == [present |-> TRUE, base |-> TRUE, rest |-> <<"/me/messages?$skip=", n>>]

\* Python's truth value of result.get("@odata.nextLink")
link_truthy(link) == link.present /\ (link.base \/ link.rest # <<>>)

\* next_link.replace(BASE_URL, "")
replace_BASE_URL(link) == [link EXCEPT !.base = FALSE]

\* the limit argument: None, or an integer
NoLimit == [given |-> FALSE, value |-> 0]
Limit(n) == [given |-> TRUE, value |-> n]

\* Python's truth value of limit
limit_truthy(l) == l.given /\ l.value # 0

\* line 214: limit and items_returned >= limit
limit_reached(l, n) == limit_truthy(l) /\ n >= l.value

\* What request() hands back for a page: None (no body), an empty dictionary, or
\* a dictionary with "@odata.context" that may hold "value" and "@odata.nextLink".
\* The items of the pages are numbered in the order the server sends them.
NoneResult  == [kind |-> "None", has_value |-> FALSE, value |-> <<>>, link |-> NoLink]
EmptyResult == [kind |-> "empty", has_value |-> FALSE, value |-> <<>>, link |-> NoLink]
Page(has_value, first, n, link) ==
    [kind |-> "page", has_value |-> has_value,
     value |-> [k \in 1..n |-> first + k - 1], link |-> link]

\* the results the server may give to the fetch number f, the first item being `first`
PageResults(f, first) ==
    LET links == IF f < MaxPages THEN {NoLink, EmptyLink, Cursor(f)} ELSE {NoLink, EmptyLink}
    IN  {NoneResult, EmptyResult}
        \cup { Page(TRUE, first, n, l) : n \in 0..MaxPageLen, l \in links }
        \cup { Page(FALSE, first, 0, l) : l \in links }

\* line 209: not result
result_falsy(result) == result.kind \in {"None", "empty"}

InitPaginated ==
    /\ op = "request_paginated"
    /\ pc = "fetch"
    /\ limit \in {NoLimit} \cup { Limit(n) : n \in 0..MaxLimit }
    /\ items_returned = 0
    /\ next_link = NoLink
    /\ page = <<>> /\ page_pos = 0 /\ page_link = NoLink
    /\ yielded = <<>> /\ served = <<>> /\ fetch_log = <<>>
    /\ payload_from = 0 /\ payload_size = 0 /\ search_value = <<>>
    /\ search_next = FALSE /\ search_log = <<>>
    /\ file_size = 0 /\ session = "none" /\ direct_puts = 0
    /\ chunk_start = 0 /\ put_log = <<>> /\ chunks_done = <<>>
    /\ loops = NoLoops
    /\ outcome = "pending"
    /\ http_calls = 0
    /\ max_retries = 3 /\ retry_count = 0
    /\ trace = <<>>
    /\ requests = <<>> /\ batch_payload = <<>> /\ returned = <<>>

\* lines 204-212: the request of a page succeeds, and the page has items to go through
PaginatedFetch ==
    /\ op = "request_paginated" /\ pc = "fetch"
    /\ \E result \in PageResults(Len(fetch_log) + 1, Len(served) + 1) :
         /\ fetch_log' = Append(fetch_log,
                [target |-> IF link_truthy(next_link) THEN replace_BASE_URL(next_link)
                            ELSE NoLink,
                 with_params |-> ~link_truthy(next_link),
                 yielded_before |-> Len(yielded)])
         /\ served' = served \o result.value
         /\ IF result_falsy(result)
            THEN /\ pc' = "done" /\ outcome' = "StopIteration"
                 /\ UNCHANGED <<page, page_pos, page_link>>
            ELSE /\ pc' = "items"
                 /\ page' = IF result.has_value THEN result.value ELSE <<>>
                 /\ page_pos' = 0
                 /\ page_link' = result.link
                 /\ UNCHANGED outcome
    /\ UNCHANGED <<op, limit, items_returned, next_link, yielded>>
    /\ UNCHANGED <<max_retries, retry_count, http_calls>>
    /\ UNCHANGED request_vars /\ UNCHANGED batch_vars /\ UNCHANGED upload_vars /\ UNCHANGED pair_vars
    /\ UNCHANGED search_vars

\* lines 205-207: request() raises, and the error leaves the generator
PaginatedFetchRaises ==
    /\ op = "request_paginated" /\ pc = "fetch"
    /\ fetch_log' = Append(fetch_log,
            [target |-> IF link_truthy(next_link) THEN replace_BASE_URL(next_link)
                        ELSE NoLink,
             with_params |-> ~link_truthy(next_link),
             yielded_before |-> Len(yielded)])
    /\ pc' = "done" /\ outcome' = "HTTPStatusError"
    /\ UNCHANGED <<op, limit, items_returned, next_link, yielded, served,
                   page, page_pos, page_link>>
    /\ UNCHANGED <<max_retries, retry_count, http_calls>>
    /\ UNCHANGED request_vars /\ UNCHANGED batch_vars /\ UNCHANGED upload_vars /\ UNCHANGED pair_vars
    /\ UNCHANGED search_vars

\* lines 213-217: the next item of the page is yielded, or the limit ends the generator
PaginatedItem ==
    /\ op = "request_paginated" /\ pc = "items"
    /\ page_pos < Len(page)
    /\ IF limit_reached(limit, items_returned)
       THEN /\ pc' = "done" /\ outcome' = "StopIteration"
            /\ UNCHANGED <<yielded, items_returned, page_pos>>
       ELSE /\ yielded' = Append(yielded, page[page_pos + 1])
            /\ items_returned' = items_returned + 1
            /\ page_pos' = page_pos + 1
            /\ UNCHANGED <<pc, outcome>>
    /\ UNCHANGED <<op, limit, next_link, served, fetch_log, page, page_link>>
    /\ UNCHANGED <<max_retries, retry_count, http_calls>>
    /\ UNCHANGED request_vars /\ UNCHANGED batch_vars /\ UNCHANGED upload_vars /\ UNCHANGED pair_vars
    /\ UNCHANGED search_vars

\* lines 219-221: the page is exhausted; follow its link or stop
PaginatedPageEnd ==
    /\ op = "request_paginated" /\ pc = "items"
    /\ page_pos >= Len(page)
    /\ next_link' = page_link
    /\ IF ~link_truthy(page_link)
       THEN pc' = "done" /\ outcome' = "StopIteration"
       ELSE pc' = "fetch" /\ UNCHANGED outcome
    /\ UNCHANGED <<op, limit, items_returned, yielded, served, fetch_log,
                   page, page_pos, page_link>>
    /\ UNCHANGED <<max_retries, retry_count, http_calls>>
    /\ UNCHANGED request_vars /\ UNCHANGED batch_vars /\ UNCHANGED upload_vars /\ UNCHANGED pair_vars
    /\ UNCHANGED search_vars

\* The results of a server that never runs out of pages: past the page number
\* MaxPages it also sends pages without items that carry a cursor again.
EndlessPageResults(f, first) ==
    PageResults(f, first)
    \cup (IF f < MaxPages THEN {}
          ELSE { Page(TRUE, first, 0, Cursor(MaxPages)), Page(FALSE, first, 0, Cursor(MaxPages)) })

\* lines 204-212 against that server.  fetch_log keeps the first MaxPages + 1
\* calls of request() only.
PaginatedFetchEndless ==
    /\ op = "request_paginated" /\ pc = "fetch"
    /\ \E result \in EndlessPageResults(Len(fetch_log) + 1, Len(served) + 1) :
         /\ fetch_log' =
                IF Len(fetch_log) > MaxPages THEN fetch_log
                ELSE Append(fetch_log,
                        [target |-> IF link_truthy(next_link) THEN replace_BASE_URL(next_link)
                                    ELSE NoLink,
                         with_params |-> ~link_truthy(next_link),
                         yielded_before |-> Len(yielded)])
         /\ served' = served \o result.value
         /\ IF result_falsy(result)
            THEN /\ pc' = "done" /\ outcome' = "StopIteration"
                 /\ UNCHANGED <<page, page_pos, page_link>>
            ELSE /\ pc' = "items"
                 /\ page' = IF result.has_value THEN result.value ELSE <<>>
                 /\ page_pos' = 0
                 /\ page_link' = result.link
                 /\ UNCHANGED outcome
    /\ UNCHANGED <<op, limit, items_returned, next_link, yielded>>
    /\ UNCHANGED <<max_retries, retry_count, http_calls>>
    /\ UNCHANGED request_vars /\ UNCHANGED batch_vars /\ UNCHANGED upload_vars /\ UNCHANGED pair_vars
    /\ UNCHANGED search_vars

----------------------------------------------------------------------------
(* Properties of request_paginated() *)

IsPrefix(s, t) == Len(s) <= Len(t) /\ \A k \in 1..Len(s) : s[k] = t[k]

\* C9, as claimed: for every limit given, the items yielded are a prefix of
\* the concatenation of the pages' value lists and are never more than limit.
C9_Claimed_PrefixWithinLimit ==
    op = "request_paginated" =>
        /\ IsPrefix(yielded, served)
        /\ limit.given => Len(yielded) <= limit.value

\* C10, as claimed: a page is fetched only while fewer than limit items have
\* been yielded.  Stated for limits of at least 1, where the treatment of
\* limit = 0 plays no part.
C10_Claimed_NoFetchAtLimit ==
    (op = "request_paginated" /\ limit.given /\ limit.value >= 1) =>
        \A k \in DOMAIN fetch_log : fetch_log[k].yielded_before < limit.value

\* C11, as claimed: a sequence that is consumed to its end terminates once
\* limit items have been yielded, whatever the server sends afterwards.  Stated
\* for limits of at least 1.
C11_Claimed_TerminatesAtLimit ==
    (op = "request_paginated" /\ limit.given /\ limit.value >= 1
        /\ Len(yielded) >= limit.value)
      ~> (pc = "done")

----------------------------------------------------------------------------
(* search_query(): the generator, lines 392-437 *)

\* line 397: the most hits asked for in one request
PAGE_SIZE == 25

\* the limits a caller passes: small ones, the page size, and 60
SearchLimits == (0..MaxSearchLimit) \cup {PAGE_SIZE, 60}

\* A hit container: its "hits" (the key may be missing) and "moreResultsAvailable".
\* A hit is written <<c, r, k, h>>: hit h of container k of response r of the
\* answer to the c-th request.  hits holds the number of hits of the container.
HitContainer(has_hits, n, more) == [has_hits |-> has_hits, hits |-> n, more |-> more]

HitContainers ==
    { HitContainer(TRUE, n, more) : n \in 0..MaxHits, more \in BOOLEAN }
    \cup { HitContainer(FALSE, 0, FALSE) }

OneHit(more) == HitContainer(TRUE, 1, more)

\* one of the responses of result["value"]: its "hitsContainers", or none
SearchResponse(has_containers, containers) ==
    [has_containers |-> has_containers, containers |-> containers]

SearchResponses ==
    { SearchResponse(FALSE, <<>>) }
    \cup { SearchResponse(TRUE, <<c>>) : c \in HitContainers }
    \cup { SearchResponse(TRUE, <<OneHit(a), OneHit(b)>>) : a, b \in BOOLEAN }

SearchValues ==
    { <<>> }
    \cup { <<r>> : r \in SearchResponses }
    \cup { <<SearchResponse(TRUE, <<OneHit(a)>>), SearchResponse(TRUE, <<OneHit(b)>>)>> :
             a, b \in BOOLEAN }

\* line 430: some container of the answer has a true "moreResultsAvailable"
has_more(value) ==
    \E r \in DOMAIN value : \E k \in DOMAIN value[r].containers :
        value[r].containers[k].more

\* What request() hands back to search_query(): None, a dictionary without
\* "value", or a dictionary with "value" that may hold "@odata.nextLink".
\* The answer to the request number MaxSearchRequests reports no more results.
SearchResult(kind, value, next) == [kind |-> kind, value |-> value, next |-> next]

SearchResults(c) ==
    { SearchResult("None", <<>>, FALSE), SearchResult("no value", <<>>, FALSE),
      SearchResult("no value", <<>>, TRUE) }
    \cup { SearchResult("value", v, next) :
             v \in { w \in SearchValues : c < MaxSearchRequests \/ ~has_more(w) },
             next \in BOOLEAN }

RECURSIVE container_hits(_, _, _, _, _)
\* lines 417-418: the hits of the k-th container of response r, from hit number h on
container_hits(c, r, k, container, h) ==
    IF h > container.hits THEN <<>>
    ELSE <<<<c, r, k, h>>>> \o container_hits(c, r, k, container, h + 1)

RECURSIVE response_hits(_, _, _, _)
\* lines 415-418: the hits of the containers of response r, from container k on
response_hits(c, r, response, k) ==
    IF ~response.has_containers \/ k > Len(response.containers) THEN <<>>
    ELSE (IF response.containers[k].has_hits
          THEN container_hits(c, r, k, response.containers[k], 1)
          ELSE <<>>)
         \o response_hits(c, r, response, k + 1)

RECURSIVE hits_last_response_first(_, _, _)
hits_last_response_first(c, value, r) ==
    IF r > Len(value) THEN <<>>
    ELSE hits_last_response_first(c, value, r + 1) \o response_hits(c, r, value[r], 1)

RECURSIVE hits_in_order(_, _, _)
\* lines 414-418: the hits in the order the three nested loops reach them
hits_in_order(c, value, r) ==
    IF r > Len(value) THEN <<>>
    ELSE response_hits(c, r, value[r], 1) \o hits_in_order(c, value, r + 1)

min_limit_unbounded(l) == l

\* line 397: min(limit, 25)
min_limit(l) == Min(l, PAGE_SIZE)

\* line 419: limit and items_returned >= limit
search_limit_reached(l, n) == l # 0 /\ n >= l

stops_on_next_link_only_without_more(next, value) == next /\ ~has_more(value)

\* line 424: "@odata.nextLink" in result
stops_on_next_link(next, value) == next

InitSearch ==
    /\ op = "search_query"
    /\ pc = "request"
    /\ limit \in { Limit(n) : n \in SearchLimits }
    /\ payload_size = min_limit(limit.value)
    /\ payload_from = 0
    /\ items_returned = 0
    /\ search_value = <<>> /\ search_next = FALSE /\ search_log = <<>>
    /\ file_size = 0 /\ session = "none" /\ direct_puts = 0
    /\ chunk_start = 0 /\ put_log = <<>> /\ chunks_done = <<>>
    /\ loops = NoLoops
    /\ page = <<>> /\ page_pos = 0
    /\ yielded = <<>>
    /\ outcome = "pending"
    /\ http_calls = 0
    /\ max_retries = 3 /\ retry_count = 0
    /\ trace = <<>>
    /\ requests = <<>> /\ batch_payload = <<>> /\ returned = <<>>
    /\ next_link = NoLink /\ page_link = NoLink
    /\ served = <<>> /\ fetch_log = <<>>

\* lines 409-412: request() answers; without a result or a "value" the generator ends
SearchRequest ==
    /\ op = "search_query" /\ pc = "request"
    /\ \E result \in SearchResults(Len(search_log) + 1) :
         /\ search_log' = Append(search_log,
                [from |-> payload_from, size |-> payload_size,
                 yielded_before |-> Len(yielded),
                 kind |-> result.kind, next |-> result.next,
                 more |-> has_more(result.value)])
         /\ IF result.kind # "value"
            THEN /\ pc' = "done" /\ outcome' = "StopIteration"
                 /\ UNCHANGED <<search_value, search_next, page, page_pos>>
            ELSE /\ pc' = "hits"
                 /\ search_value' = result.value
                 /\ search_next' = result.next
                 /\ page' = hits_in_order(Len(search_log) + 1, result.value, 1)
                 /\ page_pos' = 0
                 /\ UNCHANGED outcome
    /\ UNCHANGED <<op, limit, items_returned, yielded, payload_from, payload_size>>
    /\ UNCHANGED <<max_retries, retry_count, http_calls, next_link, page_link, served, fetch_log>>
    /\ UNCHANGED request_vars /\ UNCHANGED batch_vars /\ UNCHANGED upload_vars /\ UNCHANGED pair_vars

\* line 409: request() raises, and the error leaves the generator
SearchRequestRaises ==
    /\ op = "search_query" /\ pc = "request"
    /\ search_log' = Append(search_log,
            [from |-> payload_from, size |-> payload_size,
             yielded_before |-> Len(yielded),
             kind |-> "raised", next |-> FALSE, more |-> FALSE])
    /\ pc' = "done" /\ outcome' = "HTTPStatusError"
    /\ UNCHANGED <<op, limit, items_returned, yielded, payload_from, payload_size,
                   search_value, search_next, page, page_pos>>
    /\ UNCHANGED <<max_retries, retry_count, http_calls, next_link, page_link, served, fetch_log>>
    /\ UNCHANGED request_vars /\ UNCHANGED batch_vars /\ UNCHANGED upload_vars /\ UNCHANGED pair_vars

\* lines 418-422: the next hit is yielded, or the limit ends the generator
SearchHit ==
    /\ op = "search_query" /\ pc = "hits"
    /\ page_pos < Len(page)
    /\ IF search_limit_reached(limit.value, items_returned)
       THEN /\ pc' = "done" /\ outcome' = "StopIteration"
            /\ UNCHANGED <<yielded, items_returned, page_pos>>
       ELSE /\ yielded' = Append(yielded, page[page_pos + 1])
            /\ items_returned' = items_returned + 1
            /\ page_pos' = page_pos + 1
            /\ UNCHANGED <<pc, outcome>>
    /\ UNCHANGED <<op, limit, page>>
    /\ UNCHANGED search_vars
    /\ UNCHANGED <<max_retries, retry_count, http_calls, next_link, page_link, served, fetch_log>>
    /\ UNCHANGED request_vars /\ UNCHANGED batch_vars /\ UNCHANGED upload_vars /\ UNCHANGED pair_vars

\* lines 424-437: the hits are exhausted; stop, or move the offset and ask again
SearchCycleEnd ==
    /\ op = "search_query" /\ pc = "hits"
    /\ page_pos >= Len(page)
    /\ IF stops_on_next_link(search_next, search_value) \/ ~has_more(search_value)
       THEN /\ pc' = "done" /\ outcome' = "StopIteration"
            /\ UNCHANGED payload_from
       ELSE /\ pc' = "request"
            /\ payload_from' = payload_from + payload_size
            /\ UNCHANGED outcome
    /\ UNCHANGED <<op, limit, items_returned, yielded, page, page_pos>>
    /\ UNCHANGED <<payload_size, search_value, search_next, search_log>>
    /\ UNCHANGED <<max_retries, retry_count, http_calls, next_link, page_link, served, fetch_log>>
    /\ UNCHANGED request_vars /\ UNCHANGED batch_vars /\ UNCHANGED upload_vars /\ UNCHANGED pair_vars

----------------------------------------------------------------------------
(* Properties of search_query() *)

\* hit a comes before hit b in the nested order (request, response, container, hit)
HitBefore(a, b) ==
    \E k \in 1..4 : a[k] < b[k] /\ \A j \in 1..(k - 1) : a[j] = b[j]

\* C12, as claimed: every request carries size = min(limit, 25), the first
\* from = 0 and each later one the from of the one before plus that size; the
\* hits are yielded in nested order and are never more than limit.
C12_Claimed_SizeOffsetOrderLimit ==
    op = "search_query" =>
        /\ \A k \in DOMAIN search_log :
              /\ search_log[k].size = Min(limit.value, 25)
              /\ search_log[k].from = (k - 1) * Min(limit.value, 25)
        /\ \A k \in 1..(Len(yielded) - 1) : HitBefore(yielded[k], yielded[k + 1])
        /\ Len(yielded) <= limit.value

\* C18: a response that carries "@odata.nextLink" is the last one asked for:
\* no request follows it and the offset stays, also when one of its containers
\* reports more results and fewer than limit items have been yielded: the
\* generator goes through its hits and ends, never asking again.
C18_NextLinkEndsSearch ==
    op = "search_query" =>
        \A k \in DOMAIN search_log :
            (search_log[k].kind = "value" /\ search_log[k].next) =>
                /\ k = Len(search_log)
                /\ pc \in {"hits", "done"}
                /\ payload_from = search_log[k].from
                /\ pc = "done" => outcome = "StopIteration"

C18_Witness ==
    /\ op = "search_query" /\ pc = "done" /\ Len(search_log) = 2
    /\ search_log[2].kind = "value" /\ search_log[2].next /\ search_log[2].more
    /\ limit = Limit(60) /\ Len(yielded) = 3 /\ page_pos = Len(page)

\* C19, as claimed: for every limit, each request after the first has a from
\* strictly greater than the request before it, and is issued only if a hit
\* container of the response before it reported more results.
C19_Claimed_OffsetAdvances ==
    op = "search_query" =>
        \A k \in 2..Len(search_log) :
            /\ search_log[k].from > search_log[k - 1].from
            /\ search_log[k - 1].more

----------------------------------------------------------------------------
\* Uploads: upload_large_file(), upload_large_mail_attachment(),
\* create_upload_session(), create_mail_upload_session(), _do_chunked_upload()

\* UPLOAD_CHUNK_SIZE = 15 * 320 * 1024
UPLOAD_CHUNK_SIZE == 15 * 320 * 1024

\* the largest number of chunks of a payload
MaxChunks == 3

\* len(data): empty, one byte, around the chunk size, and around its multiples
FileSizes ==
    {0, 1, UPLOAD_CHUNK_SIZE - 1, MaxChunks * UPLOAD_CHUNK_SIZE}
        \cup { k * UPLOAD_CHUNK_SIZE + d :
                 k \in 1..(MaxChunks - 1), d \in {0, 1, UPLOAD_CHUNK_SIZE - 1} }

\* what a call of request() gives its caller: a JSON object (here with or
\* without the key "uploadUrl"), an empty object, None, or an exception
RequestResults ==
    { [kind |-> "dict", uploadUrl |-> u] : u \in BOOLEAN }
        \cup { [kind |-> k, uploadUrl |-> FALSE] :
                 k \in {"empty dict", "None", "HTTPStatusError", "ValueError"} }

request_raises(result) == result.kind \in {"HTTPStatusError", "ValueError"}

\* `not result`
not_result(result) == result.kind \in {"empty dict", "None"}

fits_in_one_put_below(size) == size < UPLOAD_CHUNK_SIZE

\* file_size <= UPLOAD_CHUNK_SIZE
fits_in_one_put(size) == size <= UPLOAD_CHUNK_SIZE

\* the answers of the upload URL to the PUT of a chunk
ChunkStatusCodes == {200, 201, 202, 404, 429, 500}

ChunkRetryAfterHeaders ==
    {NoHeader, Header(<<"1", "2", "0">>), Header(<<"-", "1">>), Header(<<"s", "o", "o", "n">>)}

ChunkResponses ==
    { r \in [status_code : ChunkStatusCodes, retry_after : ChunkRetryAfterHeaders,
             content : BOOLEAN] :
        /\ r.status_code # 429 => r.retry_after = NoHeader
        /\ (r.status_code < 200 \/ r.status_code > 299) => r.content }

chunk_end_unclipped(i, size) == i + UPLOAD_CHUNK_SIZE

\* chunk_end = min(i + UPLOAD_CHUNK_SIZE, file_size)
chunk_end(i, size) == Min(i + UPLOAD_CHUNK_SIZE, size)

\* len(data[chunk_start:chunk_end]): a slice is clipped to the data
slice_len(start, end, size) ==
    LET s == Min(start, size)
        e == Min(end, size)
    IN  IF e > s THEN e - s ELSE 0

\* f"bytes {chunk_start}-{chunk_end - 1}/{file_size}"
Content_Range(start, end, size) == <<start, end - 1, size>>

chunk_retries_left_inclusive(rc) == rc <= 3

\* the 3 of `retry_count < 3` in lines 287 and 299
chunk_retries_left(rc) == rc < 3

\* while retry_count <= 3
chunk_loop_continues(rc) == rc <= 3

Next_chunk == [kind |-> "break", slept |-> FALSE, secs |-> 0]

chunk_except_HTTPStatusError_skips(response, rc) ==
    IF chunk_retries_left(rc) /\ response.status_code >= 500
    THEN Retry(wait_time(rc))
    ELSE Next_chunk

\* lines 298-303
chunk_except_HTTPStatusError(response, rc) ==
    IF chunk_retries_left(rc) /\ response.status_code >= 500
    THEN Retry(wait_time(rc))
    ELSE Raise("HTTPStatusError")

\* response.status_code in (200, 201)
chunk_terminal(response) == response.status_code \in {200, 201}

\* lines 292-296
chunk_after_429(response, rc) ==
    IF raise_for_status_raises(response.status_code)
    THEN chunk_except_HTTPStatusError(response, rc)
    ELSE IF chunk_terminal(response)
    THEN IF response.content THEN Return("returned") ELSE Raise("JSONDecodeError")
    ELSE Next_chunk

\* lines 283-296: what one pass through the retry loop of a chunk does with
\* the response. int() and time.sleep() raise ValueError, which no handler
\* catches.
chunk_iteration(response, rc) ==
    IF response.status_code = 429
    THEN IF ~int_ok(headers_get_retry_after(response))
         THEN Raise("ValueError")
         ELSE LET retry_after == int(headers_get_retry_after(response)) IN
              IF chunk_retries_left(rc)
              THEN IF retry_after_sleep(retry_after) < 0
                   THEN Raise("ValueError")
                   ELSE Retry(retry_after_sleep(retry_after))
              ELSE chunk_after_429(response, rc)
    ELSE chunk_after_429(response, rc)

Uploads == {"upload_large_file", "upload_large_mail_attachment"}

InitUpload ==
    /\ op \in Uploads
    /\ pc = "start"
    /\ file_size \in FileSizes
    /\ session = "none" /\ direct_puts = 0
    /\ chunk_start = 0 /\ put_log = <<>> /\ chunks_done = <<>>
    /\ loops = NoLoops
    /\ max_retries = 3
    /\ retry_count = 0
    /\ outcome = "pending"
    /\ trace = <<>>
    /\ http_calls = 0
    /\ requests = <<>> /\ batch_payload = <<>> /\ returned = <<>>
    /\ limit = [given |-> FALSE, value |-> 0] /\ items_returned = 0
    /\ next_link = [present |-> FALSE, base |-> FALSE, rest |-> <<>>]
    /\ page = <<>> /\ page_pos = 0
    /\ page_link = [present |-> FALSE, base |-> FALSE, rest |-> <<>>]
    /\ yielded = <<>> /\ served = <<>> /\ fetch_log = <<>>
    /\ payload_from = 0 /\ payload_size = 0 /\ search_value = <<>>
    /\ search_next = FALSE /\ search_log = <<>>

upload_rest == <<max_retries, http_calls, loops>>

\* lines 330-334: the direct PUT of a payload of at most one chunk
UploadDirect ==
    /\ op = "upload_large_file" /\ pc = "start"
    /\ fits_in_one_put(file_size)
    /\ \E result \in RequestResults :
         /\ ~result.uploadUrl
         /\ outcome' = IF request_raises(result) THEN result.kind
                       ELSE IF not_result(result) THEN "ValueError"
                       ELSE "returned"
    /\ direct_puts' = direct_puts + 1
    /\ pc' = "done"
    /\ UNCHANGED <<op, retry_count, file_size, session, chunk_start, put_log, chunks_done>>
    /\ UNCHANGED upload_rest
    /\ UNCHANGED request_vars /\ UNCHANGED batch_vars
    /\ UNCHANGED paginated_vars /\ UNCHANGED search_vars

\* what the creation of a session leaves: create_upload_session() and
\* create_mail_upload_session() raise ValueError on an empty result, and the
\* caller's session["uploadUrl"] raises KeyError when the key is missing
session_step(result) ==
    IF request_raises(result) THEN [session |-> "failed", outcome |-> result.kind]
    ELSE IF not_result(result) THEN [session |-> "failed", outcome |-> "ValueError"]
    ELSE IF ~result.uploadUrl THEN [session |-> "no uploadUrl", outcome |-> "KeyError"]
    ELSE [session |-> "created", outcome |-> "pending"]

CreateSession ==
    /\ pc = "start"
    /\ \E result \in RequestResults :
         LET step == session_step(result) IN
         /\ session' = step.session
         /\ outcome' = step.outcome
         /\ pc' = IF step.session = "created" THEN "chunks" ELSE "done"
    /\ chunk_start' = 0
    /\ retry_count' = 0
    /\ UNCHANGED <<op, file_size, direct_puts, put_log, chunks_done>>
    /\ UNCHANGED upload_rest
    /\ UNCHANGED request_vars /\ UNCHANGED batch_vars
    /\ UNCHANGED paginated_vars /\ UNCHANGED search_vars

\* lines 336-340 with create_upload_session(), lines 308-318
UploadCreateSession ==
    /\ op = "upload_large_file"
    /\ ~fits_in_one_put(file_size)
    /\ CreateSession

\* lines 370-381 with create_mail_upload_session(), lines 343-357: no test of the size
MailUploadCreateSession ==
    /\ op = "upload_large_mail_attachment"
    /\ CreateSession

\* lines 269-303: one PUT of the chunk at chunk_start and what follows it
ChunkPut ==
    /\ op \in Uploads /\ pc = "chunks"
    /\ chunk_start < file_size
    /\ \E response \in ChunkResponses :
         LET it    == chunk_iteration(response, retry_count)
             end   == chunk_end(chunk_start, file_size)
             entry == [start |-> chunk_start, end |-> end,
                       Content_Range |-> Content_Range(chunk_start, end, file_size),
                       Content_Length |-> slice_len(chunk_start, end, file_size),
                       retry_count |-> retry_count, response |-> response,
                       slept |-> it.slept, secs |-> it.secs]
             done  == [start |-> chunk_start, end |-> end,
                       Content_Range |-> Content_Range(chunk_start, end, file_size),
                       Content_Length |-> slice_len(chunk_start, end, file_size),
                       puts |-> Len(put_log) + 1, status_code |-> response.status_code]
         IN
         IF (it.kind = "retry" /\ ~chunk_loop_continues(retry_count + 1)) \/ it.kind = "break"
         THEN /\ chunks_done' = Append(chunks_done, done)
              /\ put_log' = <<>>
              /\ chunk_start' = chunk_start + UPLOAD_CHUNK_SIZE
              /\ retry_count' = 0
              /\ UNCHANGED <<pc, outcome>>
         ELSE IF it.kind = "retry"
         THEN /\ put_log' = Append(put_log, entry)
              /\ retry_count' = retry_count + 1
              /\ UNCHANGED <<pc, outcome, chunk_start, chunks_done>>
         ELSE /\ put_log' = Append(put_log, entry)
              /\ pc' = "done"
              /\ outcome' = it.kind
              /\ UNCHANGED <<retry_count, chunk_start, chunks_done>>
    /\ UNCHANGED <<op, file_size, session, direct_puts>>
    /\ UNCHANGED upload_rest
    /\ UNCHANGED request_vars /\ UNCHANGED batch_vars
    /\ UNCHANGED paginated_vars /\ UNCHANGED search_vars

\* line 305: every chunk was sent and none was answered 200 or 201
UploadNoFinalResponse ==
    /\ op \in Uploads /\ pc = "chunks"
    /\ chunk_start >= file_size
    /\ pc' = "done"
    /\ outcome' = "ValueError"
    /\ UNCHANGED <<op, retry_count, file_size, session, direct_puts, chunk_start,
                   put_log, chunks_done>>
    /\ UNCHANGED upload_rest
    /\ UNCHANGED request_vars /\ UNCHANGED batch_vars
    /\ UNCHANGED paginated_vars /\ UNCHANGED search_vars

----------------------------------------------------------------------------
\* The chunks that were sent, in order: the finished ones and the one in hand

ChunkOf(e) ==
    [start |-> e.start, end |-> e.end,
     Content_Range |-> e.Content_Range, Content_Length |-> e.Content_Length]

SentChunks ==
    [k \in 1..Len(chunks_done) |-> ChunkOf(chunks_done[k])]
        \o (IF put_log = <<>> THEN <<>> ELSE <<ChunkOf(put_log[1])>>)

ChunkedUpload == op \in Uploads /\ session = "created"

\* C13 as stated, at the end of an upload that returned a result: the chunks
\* that were sent cover the payload up to its last byte.
C13_Claimed_ChunksCoverPayload ==
    (ChunkedUpload /\ file_size > UPLOAD_CHUNK_SIZE /\ pc = "done" /\ outcome = "returned") =>
        SentChunks[Len(SentChunks)].end = file_size

\* C13, amended: for a payload of S bytes, S larger than the chunk size, the
\* chunks that were sent are the first chunks of the payload: the k-th starts
\* at (k-1) * UPLOAD_CHUNK_SIZE and ends where the next one starts or at S, so
\* the ranges are contiguous and disjoint and every chunk but the one ending
\* at S has the length UPLOAD_CHUNK_SIZE; every PUT carries Content-Range
\* "bytes start-(end-1)/S" and Content-Length end - start; and when the loop
\* has gone through all chunks the ranges cover [0, S) exactly.
C13_SentChunksArePrefix ==
    (ChunkedUpload /\ file_size > UPLOAD_CHUNK_SIZE) =>
        /\ \A k \in DOMAIN SentChunks :
             LET c == SentChunks[k] IN
             /\ c.start = (k - 1) * UPLOAD_CHUNK_SIZE
             /\ c.start < c.end /\ c.end <= file_size
             /\ c.end - c.start = UPLOAD_CHUNK_SIZE \/ c.end = file_size
             /\ c.end - c.start <= UPLOAD_CHUNK_SIZE
             /\ c.Content_Range = <<c.start, c.end - 1, file_size>>
             /\ c.Content_Length = c.end - c.start
        /\ \A k \in DOMAIN put_log :
             /\ put_log[k].Content_Range = <<put_log[k].start, put_log[k].end - 1, file_size>>
             /\ put_log[k].Content_Length = put_log[k].end - put_log[k].start
        /\ chunk_start >= file_size =>
             /\ SentChunks # <<>>
             /\ SentChunks[Len(SentChunks)].end = file_size

\* a payload of two chunks and one byte, sent in three chunks, the last of one byte
C13_Witness ==
    /\ ChunkedUpload /\ file_size = 2 * UPLOAD_CHUNK_SIZE + 1
    /\ pc = "done" /\ outcome = "returned"
    /\ Len(SentChunks) = 3
    /\ SentChunks[3].Content_Range = <<2 * UPLOAD_CHUNK_SIZE, 2 * UPLOAD_CHUNK_SIZE, file_size>>
    /\ SentChunks[3].Content_Length = 1

----------------------------------------------------------------------------
\* C14 as stated: with up to UPLOAD_CHUNK_SIZE bytes neither upload function
\* creates an upload session or sends a chunk.
C14_Claimed_SmallPayloadDirectPut ==
    (op \in Uploads /\ file_size <= UPLOAD_CHUNK_SIZE) =>
        /\ session = "none"
        /\ SentChunks = <<>>

\* C14, amended: with up to UPLOAD_CHUNK_SIZE bytes upload_large_file() calls
\* request() once for a direct PUT, creates no session and sends no chunk; it
\* returns the result of request(), or fails when request() raises or gives an
\* empty result. With more bytes it makes no direct PUT.
\* upload_large_mail_attachment() makes no direct PUT whatever the size: its
\* first step is the creation of an upload session.
C14_SmallFileDirectPut ==
    /\ (op = "upload_large_file" /\ file_size <= UPLOAD_CHUNK_SIZE) =>
          /\ session = "none" /\ SentChunks = <<>> /\ pc \in {"start", "done"}
          /\ direct_puts = (IF pc = "done" THEN 1 ELSE 0)
          /\ pc = "done" => outcome \in {"returned", "ValueError", "HTTPStatusError"}
    /\ (op = "upload_large_file" /\ file_size > UPLOAD_CHUNK_SIZE) => direct_puts = 0
    /\ op = "upload_large_mail_attachment" =>
          /\ direct_puts = 0
          /\ pc # "start" => session # "none"

\* a payload of exactly UPLOAD_CHUNK_SIZE bytes, uploaded by one direct PUT
C14_Witness ==
    /\ op = "upload_large_file" /\ file_size = UPLOAD_CHUNK_SIZE
    /\ pc = "done" /\ outcome = "returned"
    /\ direct_puts = 1 /\ session = "none"

----------------------------------------------------------------------------
Success(status) == 200 <= status /\ status <= 299

\* the response with HTTP 200 or 201 and a body
Terminal(response) == response.status_code \in {200, 201} /\ response.content

\* the answer to the last PUT that was made, when the upload ended on it
LastPut == put_log[Len(put_log)]

\* C15 as stated: an upload that ends on a success response ends on a 200 or
\* 201 with a body and returns it, every other success response moves on to
\* the next chunk; an upload returns a result only in that way; and when all
\* chunks were sent without such a response the upload ends with an error.
C15_Claimed_OnlyTerminalEndsUpload ==
    (ChunkedUpload /\ pc = "done") =>
        /\ (put_log # <<>> /\ Success(LastPut.response.status_code)) =>
              /\ Terminal(LastPut.response)
              /\ outcome = "returned"
        /\ outcome = "returned" => (put_log # <<>> /\ Terminal(LastPut.response))
        /\ put_log = <<>> => (chunk_start >= file_size /\ outcome = "ValueError")

----------------------------------------------------------------------------
\* C17: every chunk has a retry budget of 3 of its own. The PUTs of a chunk
\* carry the retry counts 0, 1, 2, 3 in order, whatever the earlier chunks
\* used, so a chunk is sent at most 4 times; a 429 with budget left (and a
\* Retry-After that is absent or a number of seconds) waits
\* min(Retry-After, 60) seconds and a 5xx with budget left waits
\* 2^retry_count seconds; a 429 or 5xx with the budget used up, and any other
\* status that is not 2xx, raises an error on the spot, which ends the upload;
\* and a chunk is left behind only after a 2xx answer.
C17_ChunkRetryBudget ==
    ChunkedUpload =>
        /\ Len(put_log) <= 4
        /\ pc = "chunks" => retry_count = Len(put_log)
        /\ \A j \in DOMAIN chunks_done :
             /\ chunks_done[j].puts <= 4
             /\ Success(chunks_done[j].status_code)
        /\ \A k \in DOMAIN put_log :
             LET e      == put_log[k]
                 status == e.response.status_code
             IN
             /\ e.retry_count = k - 1
             /\ (status = 429 /\ e.retry_count < 3 /\ RetryAfterIsSeconds(e.response)) =>
                   /\ e.slept
                   /\ e.secs = Min(RetryAfterSeconds(e.response), 60)
             /\ (status >= 500 /\ e.retry_count < 3) =>
                   /\ e.slept
                   /\ e.secs = 2 ^ e.retry_count
             /\ e.slept => (Retryable(status) /\ e.retry_count < 3 /\ k < 4)
             /\ ((Retryable(status) /\ e.retry_count = 3)
                   \/ (~Success(status) /\ ~Retryable(status))) =>
                   /\ ~e.slept
                   /\ k = Len(put_log)
                   /\ pc = "done"
                   /\ outcome \in {"HTTPStatusError", "ValueError"}
                   /\ status # 429 => outcome = "HTTPStatusError"

\* the first chunk used its whole budget and went through at the fourth PUT;
\* the second chunk starts again at 0 and fails at its own fourth PUT
C17_Witness ==
    /\ ChunkedUpload /\ pc = "done" /\ outcome = "HTTPStatusError"
    /\ Len(chunks_done) = 1 /\ chunks_done[1].puts = 4
    /\ Len(put_log) = 4
    /\ put_log[1].retry_count = 0 /\ put_log[1].start = UPLOAD_CHUNK_SIZE
    /\ put_log[1].response.status_code = 429 /\ put_log[1].secs = 60
    /\ put_log[3].response.status_code = 500 /\ put_log[3].secs = 4
    /\ put_log[4].response.status_code = 500 /\ put_log[4].retry_count = 3

----------------------------------------------------------------------------
\* C20: in an upload through a session the steps come in a fixed order. No
\* chunk is sent unless the session was created and its uploadUrl read, and a
\* session answer without uploadUrl ends the upload with a KeyError before any
\* PUT; the chunks sent have strictly increasing starts, each one
\* UPLOAD_CHUNK_SIZE after the one before, and the one before was answered
\* with a 2xx status; and the PUTs of one chunk all carry the same byte range
\* and the same Content-Range, each one but the first following a sleep.
C20_SessionUploadOrder ==
    op \in Uploads =>
        /\ (SentChunks # <<>> \/ pc = "chunks") => session = "created"
        /\ session = "no uploadUrl" =>
              (pc = "done" /\ outcome = "KeyError" /\ SentChunks = <<>>)
        /\ session = "failed" => (pc = "done" /\ SentChunks = <<>>)
        /\ \A k \in 1..(Len(SentChunks) - 1) :
              /\ SentChunks[k].start < SentChunks[k + 1].start
              /\ SentChunks[k + 1].start = SentChunks[k].start + UPLOAD_CHUNK_SIZE
              /\ SentChunks[k + 1].start = SentChunks[k].end
              /\ Success(chunks_done[k].status_code)
        /\ \A k \in DOMAIN put_log :
              /\ put_log[k].start = chunk_start
              /\ put_log[k].start = put_log[1].start
              /\ put_log[k].end = put_log[1].end
              /\ put_log[k].Content_Range = put_log[1].Content_Range
              /\ k > 1 => put_log[k - 1].slept

\* two chunks went through, the third was sent again after a 5xx answer
C20_Witness ==
    /\ op = "upload_large_file" /\ session = "created"
    /\ Len(chunks_done) = 2 /\ Len(put_log) = 2
    /\ put_log[1].response.status_code = 500
    /\ put_log[2].start = 2 * UPLOAD_CHUNK_SIZE
    /\ put_log[2].Content_Range = put_log[1].Content_Range
    /\ pc = "done" /\ outcome = "returned"

----------------------------------------------------------------------------
\* The retry loop of request() (lines 44-83) and the one of batch_request()
\* (lines 156-190), started with the same max_retries and given the same
\* answer at every attempt

FreshLoop ==
    [pc |-> "loop", retry_count |-> 0, sleeps |-> <<>>, attempts |-> 0,
     outcome |-> "pending", last_status |-> 0]

InitLoops ==
    /\ op = "retry_loops"
    /\ pc = "loop"
    /\ max_retries \in -1..MaxRetriesBound
    /\ loops = [request |-> FreshLoop, batch_request |-> FreshLoop]
    /\ retry_count = 0
    /\ outcome = "pending"
    /\ trace = <<>>
    /\ http_calls = 0
    /\ requests = <<>> /\ batch_payload = <<>> /\ returned = <<>>
    /\ limit = [given |-> FALSE, value |-> 0] /\ items_returned = 0
    /\ next_link = [present |-> FALSE, base |-> FALSE, rest |-> <<>>]
    /\ page = <<>> /\ page_pos = 0
    /\ page_link = [present |-> FALSE, base |-> FALSE, rest |-> <<>>]
    /\ yielded = <<>> /\ served = <<>> /\ fetch_log = <<>>
    /\ payload_from = 0 /\ payload_size = 0 /\ search_value = <<>>
    /\ search_next = FALSE /\ search_log = <<>>
    /\ file_size = 0 /\ session = "none" /\ direct_puts = 0
    /\ chunk_start = 0 /\ put_log = <<>> /\ chunks_done = <<>>

\* `while retry_count <= max_retries` of lines 45 and 157
in_loop(l) == l.pc = "loop" /\ l.retry_count <= max_retries

loop_over(l) == l.pc = "loop" /\ ~(l.retry_count <= max_retries)

\* one pass through the body of a loop, `it` being what the pass does
loop_pass(l, response, it) ==
    IF it.kind = "retry"
    THEN [l EXCEPT !.retry_count = @ + 1, !.sleeps = Append(@, it.secs),
                   !.attempts = @ + 1, !.last_status = response.status_code]
    ELSE [l EXCEPT !.pc = "done", !.outcome = it.kind,
                   !.attempts = @ + 1, !.last_status = response.status_code]

\* the statement after a loop: line 83 returns None, line 190 raises ValueError
loop_exit(l, how) == [l EXCEPT !.pc = "done", !.outcome = how]

\* both functions send their request and get the same answer
LoopsAttempt ==
    /\ op = "retry_loops"
    /\ in_loop(loops.request) \/ in_loop(loops.batch_request)
    /\ \E response \in Responses :
         loops' =
           [request |->
              IF in_loop(loops.request)
              THEN loop_pass(loops.request, response,
                     request_iteration(response, loops.request.retry_count, max_retries))
              ELSE loops.request,
            batch_request |->
              IF in_loop(loops.batch_request)
              THEN loop_pass(loops.batch_request, response,
                     batch_iteration(response, loops.batch_request.retry_count, max_retries))
              ELSE loops.batch_request]
    /\ UNCHANGED <<op, pc, max_retries, retry_count, outcome, http_calls>>
    /\ UNCHANGED request_vars /\ UNCHANGED batch_vars /\ UNCHANGED paginated_vars
    /\ UNCHANGED search_vars /\ UNCHANGED upload_vars

\* lines 83 and 190: the condition of a loop fails
LoopsExit ==
    /\ op = "retry_loops"
    /\ loop_over(loops.request) \/ loop_over(loops.batch_request)
    /\ loops' =
         [request |->
            IF loop_over(loops.request)
            THEN loop_exit(loops.request, "None") ELSE loops.request,
          batch_request |->
            IF loop_over(loops.batch_request)
            THEN loop_exit(loops.batch_request, "ValueError") ELSE loops.batch_request]
    /\ UNCHANGED <<op, pc, max_retries, retry_count, outcome, http_calls>>
    /\ UNCHANGED request_vars /\ UNCHANGED batch_vars /\ UNCHANGED paginated_vars
    /\ UNCHANGED search_vars /\ UNCHANGED upload_vars

LoopsDone == loops.request.pc = "done" /\ loops.batch_request.pc = "done"

\* success or raised error
OutcomeKind(o) == IF o \in {"json", "None", "returned"} THEN "success" ELSE "raised"

\* C16 as stated: for every max_retries and every sequence of answers the two
\* loops make the same sleeps and the same number of attempts and end in the
\* same kind of outcome.
C16_Claimed_SameRetryLoop ==
    (op = "retry_loops" /\ LoopsDone) =>
        /\ loops.request.sleeps = loops.batch_request.sleeps
        /\ loops.request.attempts = loops.batch_request.attempts
        /\ OutcomeKind(loops.request.outcome) = OutcomeKind(loops.batch_request.outcome)

\* C16, amended: given the same max_retries and the same answers, the two
\* loops are at every moment at the same retry_count with the same sleeps and
\* the same number of attempts behind them, and they end together. They end
\* alike, both returning the decoded body or both raising the same error,
\* except where request() returns None: after a 2xx answer without a body
\* batch_request() raises the decode error, and with max_retries below 0,
\* where neither makes an attempt, batch_request() raises ValueError. With
\* max_retries >= 0 both raise when the last answer is not 2xx, be it a
\* failure that is not retried or a 429 or 5xx at the end of the budget.
C16_SameRetriesOtherEnds ==
    op = "retry_loops" =>
        LET r == loops.request
            b == loops.batch_request
        IN  /\ r.pc = b.pc
            /\ r.retry_count = b.retry_count
            /\ r.sleeps = b.sleeps
            /\ r.attempts = b.attempts
            /\ r.attempts <= max_retries + 1
            /\ LoopsDone =>
                 /\ r.outcome = "json" <=> b.outcome = "returned"
                 /\ r.outcome = "None" =>
                      /\ b.outcome = (IF r.attempts = 0 THEN "ValueError" ELSE "JSONDecodeError")
                      /\ r.attempts > 0 => Success(r.last_status)
                 /\ OutcomeKind(r.outcome) = "raised" => b.outcome = r.outcome
                 /\ b.outcome = "JSONDecodeError" =>
                      (Success(b.last_status) /\ r.outcome = "None")
                 /\ r.attempts = 0 <=> max_retries < 0
                 /\ (max_retries >= 0 /\ ~Success(r.last_status)) =>
                      /\ OutcomeKind(r.outcome) = "raised"
                      /\ OutcomeKind(b.outcome) = "raised"

\* three retries (429, 5xx, 429), then a 503 at the end of the budget: both raise
C16_Witness ==
    /\ op = "retry_loops" /\ LoopsDone /\ max_retries = 3
    /\ loops.request.sleeps = <<60, 2, 5>>
    /\ loops.batch_request.sleeps = <<60, 2, 5>>
    /\ loops.batch_request.attempts = 4
    /\ loops.request.last_status = 503
    /\ loops.request.outcome = "HTTPStatusError"
    /\ loops.batch_request.outcome = "HTTPStatusError"

----------------------------------------------------------------------------

Init == InitRequest \/ InitBatch \/ InitPaginated \/ InitSearch \/ InitUpload \/ InitLoops

Next ==
    \/ RequestAttempt
    \/ RequestLoopExit
    \/ BatchReject
    \/ BatchPrepare
    \/ BatchAttempt
    \/ BatchLoopExit
    \/ PaginatedFetch
    \/ PaginatedFetchRaises
    \/ PaginatedItem
    \/ PaginatedPageEnd
    \/ SearchRequest
    \/ SearchRequestRaises
    \/ SearchHit
    \/ SearchCycleEnd
    \/ UploadDirect
    \/ UploadCreateSession
    \/ MailUploadCreateSession
    \/ ChunkPut
    \/ UploadNoFinalResponse
    \/ LoopsAttempt
    \/ LoopsExit

Spec == Init /\ [][Next]_vars

\* request_paginated() consumed to its end, against a server that may go on
\* sending pages for ever: the consumer keeps asking and the server keeps
\* answering, so a step that can be taken is taken.
NextEndless ==
    \/ PaginatedFetchEndless
    \/ PaginatedFetchRaises
    \/ PaginatedItem
    \/ PaginatedPageEnd

EndlessSpec == InitPaginated /\ [][NextEndless]_vars /\ WF_vars(NextEndless)

====
